---- MODULE Spec2Model ----
(***************************************************************************)
(* tinylink-backend: the express handlers of index.js over the links table *)
(* and the helpers of utils.js.  Every handler is cut at its awaits: one   *)
(* action for the synchronous prefix of a request, one per store query.    *)
(* A code is a sequence of one-character strings, a URL a sequence of its  *)
(* syntactic parts.                                                        *)
(***************************************************************************)
EXTENDS Integers, Sequences, FiniteSets, TLC

\* ------------------------------------------------------------- bounds
\* Number of ids the links table's id sequence hands out.
MaxId == 2
\* Number of writes that take a timestamp (the clock NOW() reads).
MaxNow == 3

Clients == { "c1", "c2" }

\* ------------------------------------------------------------- utils.js
ALPHABET ==
  << "a","b","c","d","e","f","g","h","i","j","k","l","m",
     "n","o","p","q","r","s","t","u","v","w","x","y","z",
     "A","B","C","D","E","F","G","H","I","J","K","L","M",
     "N","O","P","Q","R","S","T","U","V","W","X","Y","Z",
     "0","1","2","3","4","5","6","7","8","9" >>

\* The character classes of CODE_REGEX: A-Z, a-z, 0-9.
UpperAZ ==
  { "A","B","C","D","E","F","G","H","I","J","K","L","M",
    "N","O","P","Q","R","S","T","U","V","W","X","Y","Z" }

LowerAZ ==
  { "a","b","c","d","e","f","g","h","i","j","k","l","m",
    "n","o","p","q","r","s","t","u","v","w","x","y","z" }

Digits09 == { "0","1","2","3","4","5","6","7","8","9" }

\* /^[A-Za-z0-9]{6,8}$/ applied to a string.
CODE_REGEX(s) ==
  /\ Len(s) >= 6
  /\ Len(s) <= 8
  /\ \A i \in 1..Len(s) : s[i] \in UpperAZ \cup LowerAZ \cup Digits09

\* Faulty variant: the pattern is not tested.
isValidCode_AcceptAll(code) == TRUE

isValidCode(code) == CODE_REGEX(code)

\* The values Math.floor(Math.random() * ALPHABET.length) takes in the six
\* iterations of one generateCode(6) call, as drawn in this model.
RandomDraws == { <<0, 0, 0, 0, 0, 0>>, <<0, 0, 0, 0, 0, 1>> }

\* Faulty variant: the loop runs one iteration short.
generateCode_OneShort(length, draws) ==
  [i \in 1..(length - 1) |-> ALPHABET[draws[i] + 1]]

\* generateCode(length) with the random indexes `draws`.
generateCode(length, draws) == [i \in 1..length |-> ALPHABET[draws[i] + 1]]

\* URL strings by their parts: scheme, ":", "//", host, path.
SpecialSchemes == { "http", "https" }

\* new URL(url) does not throw: there is a scheme, and a special scheme has
\* a host.
isValidUrl(url) ==
  /\ Len(url) >= 2
  /\ url[1] # ""
  /\ url[2] = ":"
  /\ (url[1] \in SpecialSchemes =>
        /\ Len(url) >= 4
        /\ url[3] = "//"
        /\ url[4] # "")

\* ------------------------------------------------------------- inputs
NoCode == << >>
NoUrl == << >>

CodeA == << "a","a","a","a","a","a" >>
CodeB == << "a","a","a","a","a","b" >>
CodeHealthz == << "h","e","a","l","t","h","z" >>
CodeApi == << "a","p","i" >>
CodeShort == << "a","b" >>
CodeDash == << "a","b","c","-","e","f" >>

\* The :code of the routes that take one.
StatsCodes == { CodeA, CodeDash }
DeleteCodes == { CodeA, CodeB, CodeShort }
GetCodes == { CodeA, CodeB, CodeApi, CodeShort }

UrlPage == << "https", ":", "//", "example.com", "/page" >>
UrlX == << "https", ":", "//", "x.com" >>
UrlBad == << "not-a-url" >>

\* req.body of POST /api/links: << url, code >>.
PostInputs ==
  { <<UrlPage, NoCode>>, <<UrlPage, CodeA>>, <<UrlX, CodeA>>,
    <<UrlPage, CodeHealthz>>, <<NoUrl, NoCode>>, <<UrlBad, NoCode>>,
    <<UrlX, CodeShort>> }

BASE_URL == << "http", ":", "//", "localhost:5000" >>
VERSION == "1.0"

\* `${BASE_URL}/${code}`
ShortUrl(code) == [base |-> BASE_URL, code |-> code]

\* ------------------------------------------------------------- links table
NULL == << >>

\* Faulty variant: the table has no unique constraint on code.
UniqueViolation_None(rs, code) == FALSE

\* The table's constraint on inserts: code is UNIQUE (error 23505).
UniqueViolation(rs, code) == \E r \in rs : r.code = code

\* The row an insert of (code, original_url) creates: the id from the
\* table's sequence, clicks 0, last_clicked_at null, created_at now.
NewRow(id, code, url, t) ==
  [id |-> id, code |-> code, original_url |-> url, clicks |-> 0,
   last_clicked_at |-> NULL, created_at |-> t]

\* INSERT INTO links (code, original_url) VALUES ($1, $2) RETURNING *
InsertLink(rs, id, code, url, t) == rs \cup { NewRow(id, code, url, t) }

\* Faulty variant: the existence SELECT has no WHERE clause.
SelectIdByCode_NoWhere(rs, code) == { [id |-> r.id] : r \in rs }

\* Faulty variant: INSERT ... ON CONFLICT (code) DO UPDATE SET original_url.
RefusedInsert_Overwrites(rs, code, url) ==
  { IF r.code = code THEN [r EXCEPT !.original_url = url] ELSE r : r \in rs }

\* The table after an INSERT the constraint refused: the statement has no
\* ON CONFLICT clause and changes nothing.
RefusedInsert(rs, code, url) == rs

\* SELECT id FROM links WHERE code = $1
SelectIdByCode(rs, code) == { [id |-> r.id] : r \in { x \in rs : x.code = code } }

\* SELECT id, code, original_url, clicks, last_clicked_at, created_at
\* FROM links WHERE code = $1
SelectStatsByCode(rs, code) == { r \in rs : r.code = code }

\* Faulty variant: the SELECT has no WHERE clause.
SelectLinkByCode_NoWhere(rs, code) ==
  { [id |-> r.id, original_url |-> r.original_url] : r \in rs }

\* SELECT id, original_url FROM links WHERE code = $1
SelectLinkByCode(rs, code) ==
  { [id |-> r.id, original_url |-> r.original_url] :
      r \in { x \in rs : x.code = code } }

\* Faulty variant: a soft delete, the row stays in the table.
DeleteByCode_Soft(rs, code) == rs

\* DELETE FROM links WHERE code = $1: the rows left, and result.rowCount.
DeleteByCode(rs, code) == { r \in rs : r.code # code }

\* Faulty variant: the result reports no deleted row.
DeleteRowCount_Zero(rs, code) == 0

DeleteRowCount(rs, code) == Cardinality({ r \in rs : r.code = code })

\* Faulty variant: SET last_clicked_at = NOW() alone, the counter is not incremented.
UpdateClicks_NoIncrement(rs, id, t) ==
  { IF r.id = id THEN [r EXCEPT !.last_clicked_at = <<t>>] ELSE r : r \in rs }

\* Faulty variant: the UPDATE has no WHERE clause.
UpdateClicks_NoWhere(rs, id, t) ==
  { [r EXCEPT !.clicks = @ + 1, !.last_clicked_at = <<t>>] : r \in rs }

\* Faulty variant: the UPDATE increments clicks and leaves last_clicked_at.
UpdateClicks_NoTimestamp(rs, id, t) ==
  { IF r.id = id THEN [r EXCEPT !.clicks = @ + 1] ELSE r : r \in rs }

\* Faulty variant: the UPDATE also sets created_at = NOW().
UpdateClicks_SetsCreatedAt(rs, id, t) ==
  { IF r.id = id
      THEN [r EXCEPT !.clicks = @ + 1, !.last_clicked_at = <<t>>,
                     !.created_at = t]
      ELSE r : r \in rs }

\* UPDATE links SET clicks = clicks + 1, last_clicked_at = NOW() WHERE id = $1
UpdateClicks(rs, id, t) ==
  { IF r.id = id
      THEN [r EXCEPT !.clicks = @ + 1, !.last_clicked_at = <<t>>]
      ELSE r : r \in rs }

\* ... ORDER BY created_at DESC
RECURSIVE OrderByCreatedDesc(_)
OrderByCreatedDesc(rs) ==
  IF rs = {} THEN << >>
  ELSE LET newest == CHOOSE r \in rs : \A x \in rs : x.created_at <= r.created_at
       IN  <<newest>> \o OrderByCreatedDesc(rs \ {newest})

\* rows.map((row) => ({ ...row, short_url }))
WithShortUrl(r) ==
  [id |-> r.id, code |-> r.code, original_url |-> r.original_url,
   clicks |-> r.clicks, last_clicked_at |-> r.last_clicked_at,
   created_at |-> r.created_at, short_url |-> ShortUrl(r.code)]

\* ------------------------------------------------------------- state
VARIABLES
  rows,       \* the links table: a set of rows
  nextId,     \* the next value of the table's id sequence
  now,        \* the store's clock
  pc,         \* per client: idle, or the query its handler awaits
  req,        \* per client: the request being handled
  finalCode,  \* per client: finalCode of POST /api/links
  link,       \* per client: result.rows[0] of GET /:code
  obs,        \* history, per client: what happened to the requested code
  sent,       \* the response the latest step sent, with its request
  deleted,    \* history: id, code and clicks of every row deleted so far
  redirects   \* history: per link id, the 302 responses sent for it

vars ==
  << rows, nextId, now, pc, req, finalCode, link, obs, sent, deleted, redirects >>

NoLink == [id |-> 0, original_url |-> NoUrl]
NoReq == [route |-> "none", url |-> NoUrl, code |-> NoCode]
NoObs ==
  [wasLive |-> FALSE, wasFreed |-> FALSE, insDuring |-> FALSE,
   delDuring |-> FALSE, visitDuring |-> FALSE, failed |-> FALSE]
NoSent ==
  [req |-> NoReq, finalCode |-> NoCode, link |-> NoLink, obs |-> NoObs,
   status |-> 0, body |-> "none"]

Live(code) == \E r \in rows : r.code = code

\* A link of `code` was deleted (204) and none was created since.
Freed(code) ==
  \E d \in deleted :
    /\ d.code = code
    /\ \A r \in rows : r.code = code => r.id <= d.id

Init ==
  /\ rows = {}
  /\ nextId = 1
  /\ now = 1
  /\ pc = [p \in Clients |-> "idle"]
  /\ req = [p \in Clients |-> NoReq]
  /\ finalCode = [p \in Clients |-> NoCode]
  /\ link = [p \in Clients |-> NoLink]
  /\ obs = [p \in Clients |-> NoObs]
  /\ sent = NoSent
  /\ deleted = {}
  /\ redirects = [i \in 1..MaxId |-> 0]

\* The handler of p stands at `label`.  `sent` is history only: no handler
\* reads it, so letting the response on the wire reach its client (Deliver)
\* before the next handler step loses no interleaving of the handlers.
At(p, label) ==
  /\ sent = NoSent
  /\ pc[p] = label

\* The handler of p returns: its locals are gone, the response is on the wire.
Return(p, r, fc, l, o, status, body) ==
  /\ pc' = [pc EXCEPT ![p] = "idle"]
  /\ req' = [req EXCEPT ![p] = NoReq]
  /\ finalCode' = [finalCode EXCEPT ![p] = NoCode]
  /\ link' = [link EXCEPT ![p] = NoLink]
  /\ sent' = [req |-> r, finalCode |-> fc, link |-> l, obs |-> o,
              status |-> status, body |-> body]

\* A request is answered by the synchronous prefix of its handler.
Reject(p, route, url, code, status, body) ==
  /\ Return(p, [route |-> route, url |-> url, code |-> code],
            NoCode, NoLink, NoObs, status, body)
  /\ UNCHANGED obs

\* A request reaches the first await of its handler.
Accept(p, route, url, code, label) ==
  /\ pc' = [pc EXCEPT ![p] = label]
  /\ req' = [req EXCEPT ![p] = [route |-> route, url |-> url, code |-> code]]
  /\ obs' = [obs EXCEPT ![p] =
                IF route = "POST /api/links" /\ code # NoCode
                  THEN [NoObs EXCEPT !.wasLive = Live(code),
                                     !.wasFreed = Freed(code)]
                  ELSE NoObs]
  /\ sent' = NoSent
  /\ UNCHANGED link

\* res.status(s).json(body) / send / redirect / end after an await.
Respond(p, status, body) ==
  /\ Return(p, req[p], finalCode[p], link[p], obs[p], status, body)
  /\ obs' = [obs EXCEPT ![p] = NoObs]

\* The same, while the step also notes `o` in the other clients' history.
RespondNoting(p, o, status, body) ==
  /\ Return(p, req[p], finalCode[p], link[p], obs[p], status, body)
  /\ obs' = [o EXCEPT ![p] = NoObs]

\* History: an insert of `code` by p, or a delete of it, committed while
\* another client's POST of that code awaits its INSERT; a delete of it also
\* while another client's DELETE of that code awaits.
NoteInsert(p, code) ==
  [q \in Clients |->
     IF q # p /\ pc[q] = "post_insert" /\ req[q].code = code
       THEN [obs[q] EXCEPT !.insDuring = TRUE]
       ELSE obs[q]]

NoteDelete(p, code) ==
  [q \in Clients |->
     IF q # p /\ pc[q] \in {"post_insert", "delete_delete"} /\ req[q].code = code
       THEN [obs[q] EXCEPT !.delDuring = TRUE]
       ELSE obs[q]]

\* History: the visit update of p changed the link that another client has
\* read and not yet updated.
NoteVisit(p) ==
  [q \in Clients |->
     IF /\ q # p
        /\ pc[q] = "get_update"
        /\ link[q].id = link[p].id
        /\ \E r \in rows : r.id = link[p].id
       THEN [obs[q] EXCEPT !.visitDuring = TRUE]
       ELSE obs[q]]

\* ------------------------------------------------------------- GET /healthz
Healthz(p) ==
  /\ At(p, "idle")
  /\ Reject(p, "GET /healthz", NoUrl, CodeHealthz, 200,
            [ok |-> TRUE, version |-> VERSION])
  /\ UNCHANGED << rows, nextId, now, deleted, redirects >>

\* ------------------------------------------------------------- POST /api/links
\* Faulty variant: a requested code is ignored, one is always generated.
FirstAwait_AlwaysGenerate(code) == "post_select"

\* if (!finalCode): the await the validated request reaches first.
FirstAwait(code) == IF code = NoCode THEN "post_select" ELSE "post_insert"

\* The handler up to its first await: validation of url and code.
PostLinks(p, url, code) ==
  /\ At(p, "idle")
  /\ IF url = NoUrl
       THEN Reject(p, "POST /api/links", url, code, 400, "url is required")
     ELSE IF ~isValidUrl(url)
       THEN Reject(p, "POST /api/links", url, code, 400, "Invalid URL")
     ELSE IF code # NoCode /\ ~isValidCode(code)
       THEN Reject(p, "POST /api/links", url, code, 400,
                   "Code must match [A-Za-z0-9]{6,8}")
     ELSE /\ Accept(p, "POST /api/links", url, code, FirstAwait(code))
          /\ finalCode' = [finalCode EXCEPT ![p] = code]
  /\ UNCHANGED << rows, nextId, now, deleted, redirects >>

\* One iteration of the while (exists) loop: a candidate and its SELECT.
PostSelect(p, draws) ==
  /\ At(p, "post_select")
  /\ LET candidate == generateCode(6, draws)
         existing == SelectIdByCode(rows, candidate)
     IN  /\ finalCode' = [finalCode EXCEPT ![p] = candidate]
         /\ pc' = [pc EXCEPT ![p] =
                     IF Cardinality(existing) > 0 THEN "post_select"
                                                  ELSE "post_insert"]
  /\ sent' = NoSent
  /\ UNCHANGED << rows, nextId, now, req, link, obs, deleted, redirects >>

\* Faulty variant: the catch block does not tell the unique violation apart.
PostCatchStatus_Always500(errCode) == 500

\* Faulty variant: the catch block reports every error as a conflict.
PostCatchStatus_Always409(errCode) == 409

\* The status the catch block of POST /api/links answers with.
PostCatchStatus(errCode) == IF errCode = "23505" THEN 409 ELSE 500

PostCatchBody(errCode) ==
  IF errCode = "23505" THEN "Code already exists" ELSE "Server error"

\* The INSERT and the 201 built from the returned row, or the catch block.
PostInsert(p) ==
  /\ At(p, "post_insert")
  /\ IF UniqueViolation(rows, finalCode[p])
       THEN /\ Respond(p, PostCatchStatus("23505"), PostCatchBody("23505"))
            /\ rows' = RefusedInsert(rows, finalCode[p], req[p].url)
            /\ UNCHANGED << nextId, now >>
       ELSE /\ nextId <= MaxId
            /\ now <= MaxNow
            /\ rows' = InsertLink(rows, nextId, finalCode[p], req[p].url, now)
            /\ nextId' = nextId + 1
            /\ now' = now + 1
            /\ RespondNoting(p, NoteInsert(p, finalCode[p]), 201,
                 WithShortUrl(NewRow(nextId, finalCode[p], req[p].url, now)))
  /\ UNCHANGED << deleted, redirects >>

\* ------------------------------------------------------------- GET /api/links
GetLinks(p) ==
  /\ At(p, "idle")
  /\ Accept(p, "GET /api/links", NoUrl, NoCode, "list_select")
  /\ UNCHANGED << rows, nextId, now, finalCode, deleted, redirects >>

ListSelect(p) ==
  /\ At(p, "list_select")
  /\ LET result == OrderByCreatedDesc(rows)
     IN  Respond(p, 200, [i \in 1..Len(result) |-> WithShortUrl(result[i])])
  /\ UNCHANGED << rows, nextId, now, deleted, redirects >>

\* ------------------------------------------------------------- GET /api/links/:code
GetLinkStats(p, code) ==
  /\ At(p, "idle")
  /\ IF ~isValidCode(code)
       THEN /\ Reject(p, "GET /api/links/:code", NoUrl, code, 400,
                      "Invalid code format")
       ELSE /\ Accept(p, "GET /api/links/:code", NoUrl, code, "stats_select")
            /\ UNCHANGED finalCode
  /\ UNCHANGED << rows, nextId, now, deleted, redirects >>

StatsSelect(p) ==
  /\ At(p, "stats_select")
  /\ LET result == SelectStatsByCode(rows, req[p].code)
     IN  IF Cardinality(result) = 0
           THEN Respond(p, 404, "Code not found")
           ELSE Respond(p, 200, WithShortUrl(CHOOSE r \in result : TRUE))
  /\ UNCHANGED << rows, nextId, now, deleted, redirects >>

\* ------------------------------------------------------------- DELETE /api/links/:code
DeleteLink(p, code) ==
  /\ At(p, "idle")
  /\ IF ~isValidCode(code)
       THEN /\ Reject(p, "DELETE /api/links/:code", NoUrl, code, 400,
                      "Invalid code format")
       ELSE /\ Accept(p, "DELETE /api/links/:code", NoUrl, code, "delete_delete")
            /\ UNCHANGED finalCode
  /\ UNCHANGED << rows, nextId, now, deleted, redirects >>

DeleteDelete(p) ==
  /\ At(p, "delete_delete")
  /\ LET rowCount == DeleteRowCount(rows, req[p].code)
     IN  /\ rows' = DeleteByCode(rows, req[p].code)
         /\ deleted' = deleted \cup
              { [id |-> r.id, code |-> r.code, clicks |-> r.clicks] :
                  r \in { x \in rows : x.code = req[p].code } }
         /\ IF rowCount = 0
              THEN Respond(p, 404, "Code not found")
              ELSE RespondNoting(p, NoteDelete(p, req[p].code), 204, "")
  /\ UNCHANGED << nextId, now, redirects >>

\* ------------------------------------------------------------- GET /:code
\* The router sends GET /healthz to the health check, registered first.
GetCode(p, code) ==
  /\ At(p, "idle")
  /\ code # CodeHealthz
  /\ IF code = CodeApi \/ code = CodeHealthz
       THEN Reject(p, "GET /:code", NoUrl, code, 404, "Not found")
     ELSE IF ~isValidCode(code)
       THEN Reject(p, "GET /:code", NoUrl, code, 404, "Short URL not found")
     ELSE /\ Accept(p, "GET /:code", NoUrl, code, "get_select")
          /\ UNCHANGED finalCode
  /\ UNCHANGED << rows, nextId, now, deleted, redirects >>

GetSelect(p) ==
  /\ At(p, "get_select")
  /\ LET result == SelectLinkByCode(rows, req[p].code)
     IN  IF Cardinality(result) = 0
           THEN Respond(p, 404, "Short URL not found")
           ELSE /\ link' = [link EXCEPT ![p] = CHOOSE r \in result : TRUE]
                /\ pc' = [pc EXCEPT ![p] = "get_update"]
                /\ sent' = NoSent
                /\ UNCHANGED << req, finalCode, obs >>
  /\ UNCHANGED << rows, nextId, now, deleted, redirects >>

\* Faulty variant: the UPDATE is scoped by the requested code, not by the id read.
VisitUpdate_ByCode(p) ==
  { IF r.code = req[p].code
      THEN [r EXCEPT !.clicks = @ + 1, !.last_clicked_at = <<now>>]
      ELSE r : r \in rows }

\* Faulty variant: the visit is recorded by an upsert keyed by id, which
\* creates the row again when it is gone.
VisitUpdate_Upsert(p) ==
  IF \E r \in rows : r.id = link[p].id
    THEN UpdateClicks(rows, link[p].id, now)
    ELSE rows \cup
           { [id |-> link[p].id, code |-> req[p].code,
              original_url |-> link[p].original_url, clicks |-> 1,
              last_clicked_at |-> <<now>>, created_at |-> now] }

\* The rows after the UPDATE of GET /:code.
VisitUpdate(p) == UpdateClicks(rows, link[p].id, now)

GetUpdate(p) ==
  /\ At(p, "get_update")
  /\ now <= MaxNow
  /\ rows' = VisitUpdate(p)
  /\ now' = now + 1
  /\ redirects' = [redirects EXCEPT ![link[p].id] = @ + 1]
  /\ RespondNoting(p, NoteVisit(p), 302, link[p].original_url)
  /\ UNCHANGED << nextId, deleted >>

\* ------------------------------------------------------------- store failure
\* The awaited query rejects with an error that is no unique violation: every
\* handler's catch block answers 500.
QueryFails(p) ==
  /\ sent = NoSent
  /\ pc[p] # "idle"
  /\ Return(p, req[p], finalCode[p], link[p], [obs[p] EXCEPT !.failed = TRUE],
            IF pc[p] \in {"post_select", "post_insert"}
              THEN PostCatchStatus("08006") ELSE 500,
            "Server error")
  /\ obs' = [obs EXCEPT ![p] = NoObs]
  /\ UNCHANGED << rows, nextId, now, deleted, redirects >>

\* ------------------------------------------------------------- specification
\* The response on the wire reaches its client.
Deliver ==
  /\ sent # NoSent
  /\ sent' = NoSent
  /\ UNCHANGED << rows, nextId, now, pc, req, finalCode, link, obs, deleted,
                  redirects >>

Next ==
  \/ Deliver
  \/ \E p \in Clients :
       \/ Healthz(p)
       \/ \E body \in PostInputs : PostLinks(p, body[1], body[2])
       \/ \E draws \in RandomDraws : PostSelect(p, draws)
       \/ PostInsert(p)
       \/ GetLinks(p)
       \/ ListSelect(p)
       \/ \E code \in StatsCodes : GetLinkStats(p, code)
       \/ StatsSelect(p)
       \/ \E code \in DeleteCodes : DeleteLink(p, code)
       \/ DeleteDelete(p)
       \/ \E code \in GetCodes \cup {CodeHealthz} : GetCode(p, code)
       \/ GetSelect(p)
       \/ GetUpdate(p)
       \/ QueryFails(p)

Spec == Init /\ [][Next]_vars

\* The store answers every query it is sent, generateCode returns every
\* code again and again, and every response reaches its client.
Fairness ==
  /\ WF_vars(Deliver)
  /\ \A p \in Clients :
       /\ \A draws \in RandomDraws : SF_vars(PostSelect(p, draws))
       /\ SF_vars(PostInsert(p))

FairSpec == Spec /\ Fairness

\* ------------------------------------------------------------- properties
Post == "POST /api/links"
Get == "GET /:code"

\* The response just sent answers a POST /api/links that passed validation
\* with a requested code, and no query of it failed.
SentExplicitPost ==
  /\ sent.req.route = Post
  /\ sent.req.code # NoCode
  /\ sent.status \notin {0, 400}
  /\ ~sent.obs.failed

\* The step answers the request of p from the await `label`, by the query's
\* result and not by its failure.
Answers(p, label) ==
  /\ pc[p] = label
  /\ pc'[p] = "idle"
  /\ ~sent'.obs.failed

\* C1: in every reachable state the table holds at most one link per code.
C1_OneLinkPerCode ==
  \A r1 \in rows, r2 \in rows : r1.code = r2.code => r1 = r2

\* C1 witness: an INSERT racing with another client's INSERT of the same
\* code was refused, and the code has its one link.
C1_Witness ==
  /\ sent.req.route = Post
  /\ sent.status = 409
  /\ sent.obs.insDuring
  /\ Cardinality({ r \in rows : r.code = sent.finalCode }) = 1

\* C2: a POST with a requested code that was free when the request arrived,
\* with no delete of that code meanwhile, answers 409 when another client's
\* insert of the code committed (201) during the request, and 201 otherwise.
C2_ExactlyOneSucceeds ==
  (SentExplicitPost /\ ~sent.obs.wasLive /\ ~sent.obs.delDuring) =>
    /\ sent.status \in {201, 409}
    /\ sent.status = 409 <=> sent.obs.insDuring
    /\ Live(sent.req.code)

\* C2 witness: the loser of two concurrent POSTs of the code healthz, which
\* only a requested code can be.
C2_Witness ==
  /\ SentExplicitPost
  /\ sent.req.code = CodeHealthz
  /\ ~sent.obs.wasLive
  /\ sent.obs.insDuring
  /\ sent.status = 409

\* C3 (as claimed): a POST without a requested code never answers 409.
C3_GeneratedNeverConflicts ==
  (sent.req.route = Post /\ sent.req.code = NoCode) => sent.status # 409

\* C4: every live link's clicks equals the number of 302 responses sent for
\* it, and a 302 carries the original_url of the link it read.
C4_NoLostVisit ==
  /\ \A r \in rows : r.clicks = redirects[r.id]
  /\ sent.status = 302 =>
       \A r \in rows : r.id = sent.link.id => sent.body = r.original_url

\* C4 witness: two GETs of one link overlapped (each read it before the
\* other's update), both were redirected and the link counts two visits.
C4_Witness ==
  /\ sent.status = 302
  /\ sent.obs.visitDuring
  /\ \E r \in rows : r.id = sent.link.id /\ r.clicks = 2

\* C5 (as claimed): a GET /:code that found its link answers with the
\* redirect, also when the visit update fails.
C5_RedirectsDespiteUpdateFailure ==
  (sent.req.route = Get /\ sent.link # NoLink) => sent.status = 302

\* C6: the visit update of a GET leaves every row unchanged whose id is not
\* the id the GET read, a row with the requested code included.
C6_UpdateScopedById ==
  [][\A p \in Clients :
       Answers(p, "get_update") =>
         \A y \in rows : y.id # link[p].id => y \in rows']_vars

\* C6 witness: the link read was deleted and the code allocated again before
\* the update; the new link has no visit.
C6_Witness ==
  /\ sent.status = 302
  /\ \E d \in deleted : d.id = sent.link.id
  /\ \E y \in rows :
       /\ y.code = sent.req.code
       /\ y.id # sent.link.id
       /\ y.clicks = 0
       /\ y.last_clicked_at = NULL

\* C7: a POST with a requested code that was live when the request arrived
\* and was not deleted meanwhile answers 409; a POST with a requested code
\* inserts under that code only, and its 409 leaves the table unchanged.
C7_ExplicitConflict ==
  /\ [](/\ (SentExplicitPost /\ sent.obs.wasLive /\ ~sent.obs.delDuring) =>
              sent.status = 409
        /\ \A p \in Clients :
             (req[p].route = Post /\ req[p].code # NoCode) =>
               (pc[p] = "post_insert" /\ finalCode[p] = req[p].code))
  /\ [][\A p \in Clients :
          (req[p].route = Post /\ req[p].code # NoCode /\ pc'[p] = "idle") =>
            /\ sent'.status = 409 => rows' = rows
            /\ \A r \in rows' \ rows : r.code = req[p].code]_vars

\* C7 witness: a POST of a code that was live is answered 409.
C7_Witness ==
  /\ SentExplicitPost
  /\ sent.obs.wasLive
  /\ ~sent.obs.delDuring
  /\ sent.status = 409
  /\ Live(sent.req.code)

\* C8: in every step, a link's clicks does not decrease, and changes only by
\* one, in the visit update of a GET /:code that read that link and is
\* answered 302.
C8_ClicksOnlyByVisit ==
  [][\A r \in rows, r2 \in rows' :
       (r.id = r2.id /\ r2.clicks # r.clicks) =>
         /\ r2.clicks = r.clicks + 1
         /\ \E p \in Clients :
              /\ pc[p] = "get_update"
              /\ link[p].id = r.id
              /\ pc'[p] = "idle"
              /\ sent'.req.route = Get
              /\ sent'.status = 302]_vars

\* C8 witness: a visit was recorded on one link while another link was live.
C8_Witness ==
  /\ sent.status = 302
  /\ \E r \in rows, o \in rows :
       /\ r.id = sent.link.id
       /\ r.clicks >= 1
       /\ o.id # r.id
       /\ o.clicks = 0

\* C9: when the SELECT of a GET /:code returns while its code has no live
\* link, the request is answered 404 and the table is unchanged.
C9_AbsentIsNotFound ==
  [][\A p \in Clients :
       (/\ pc[p] = "get_select"
        /\ pc'[p] # "get_select"
        /\ ~sent'.obs.failed
        /\ ~Live(req[p].code)) =>
         /\ pc'[p] = "idle"
         /\ sent'.req.route = Get
         /\ sent'.status = 404
         /\ rows' = rows]_vars

\* C9 witness: a GET of a code whose link was deleted is answered 404 while
\* another link is live.
C9_Witness ==
  /\ sent.req.route = Get
  /\ sent.status = 404
  /\ isValidCode(sent.req.code)
  /\ ~sent.obs.failed
  /\ \E d \in deleted : d.code = sent.req.code
  /\ ~Live(sent.req.code)
  /\ rows # {}

\* C10: a POST with a requested code that had been deleted and not allocated
\* again when the request arrived, with no other insert of it meanwhile,
\* answers 201 with a link of clicks 0 and no last_clicked_at whose id is the
\* id of no deleted link, and that link is in the table.
C10_ReusableAfterDelete ==
  (SentExplicitPost /\ sent.obs.wasFreed /\ ~sent.obs.insDuring) =>
    /\ sent.status = 201
    /\ sent.body.code = sent.req.code
    /\ sent.body.clicks = 0
    /\ sent.body.last_clicked_at = NULL
    /\ \A d \in deleted : d.id # sent.body.id
    /\ \E r \in rows : WithShortUrl(r) = sent.body

\* C10 witness: the code is allocated again after the delete of a link that
\* had been visited.
C10_Witness ==
  /\ SentExplicitPost
  /\ sent.obs.wasFreed
  /\ sent.status = 201
  /\ \E d \in deleted : d.code = sent.req.code /\ d.clicks > 0

\* ------------------------------------------------------------- C11
Delete == "DELETE /api/links/:code"
Stats == "GET /api/links/:code"

\* The request carries malformed input: a POST whose url does not parse or
\* whose requested code does not match the pattern, another route whose
\* :code does not match it.
Malformed(r) ==
  \/ r.route = Post /\ (~isValidUrl(r.url) \/ (r.code # NoCode /\ ~CODE_REGEX(r.code)))
  \/ r.route \in {Get, Delete, Stats} /\ ~CODE_REGEX(r.code)

\* C11: no handler awaits a query for a request with malformed input, and
\* the step that answers such a request is the step in which it arrived (no
\* handler leaves an await), answers 400 (404 on GET /:code) and leaves the
\* table and its id sequence unchanged.
C11_MalformedRejectedFirst ==
  /\ [](\A p \in Clients : pc[p] # "idle" => ~Malformed(req[p]))
  /\ [][(sent' # NoSent /\ Malformed(sent'.req)) =>
          /\ pc' = pc
          /\ rows' = rows
          /\ nextId' = nextId
          /\ sent'.status = IF sent'.req.route = Get THEN 404 ELSE 400]_vars

\* C11 witness: a POST with the requested code "ab" is answered 400 while
\* the table holds a link and another client's handler awaits a query.
C11_Witness ==
  /\ sent.req.route = Post
  /\ sent.req.code = CodeShort
  /\ sent.status = 400
  /\ rows # {}
  /\ \E p \in Clients : pc[p] # "idle"

\* ------------------------------------------------------------- C12
\* C12: when the DELETE of a DELETE /api/links/:code returns, the request is
\* answered 204 if a link with that code was live and 404 if none was; the
\* step removes exactly the links of that code, so none is live afterwards,
\* a 204 removes one link and a 404 leaves the table unchanged.
C12_DeleteReportsRemoval ==
  [][\A p \in Clients :
       Answers(p, "delete_delete") =>
         /\ sent'.req.route = Delete
         /\ sent'.status = IF Live(req[p].code) THEN 204 ELSE 404
         /\ rows' = { r \in rows : r.code # req[p].code }
         /\ sent'.status = 204 => Cardinality(rows \ rows') = 1
         /\ sent'.status = 404 => rows' = rows]_vars

\* C12 witness: of two concurrent DELETEs of one live code, the second to be
\* applied is answered 404 after the first was answered 204.
C12_Witness ==
  /\ sent.req.route = Delete
  /\ sent.status = 404
  /\ sent.obs.delDuring
  /\ ~sent.obs.failed
  /\ Cardinality({ d \in deleted : d.code = sent.req.code }) = 1
  /\ ~Live(sent.req.code)

\* ------------------------------------------------------------- C13
\* C13: a step in which a query fails with an error that is no unique
\* violation ends the request of the one handler that awaited it: that
\* handler returns with 500 "Server error" (never 400, 404 or 409), no other
\* handler moves, and the table is unchanged.
C13_StoreFailureIsGeneric ==
  [][sent'.obs.failed =>
       /\ sent'.status = 500
       /\ sent'.body = "Server error"
       /\ rows' = rows
       /\ \E p \in Clients :
            /\ pc[p] # "idle"
            /\ pc'[p] = "idle"
            /\ sent'.req = req[p]
            /\ \A q \in Clients \ {p} : pc'[q] = pc[q]]_vars

\* C13 witness: the first existence SELECT of a POST without a requested
\* code failed, while the table holds a link.
C13_Witness ==
  /\ sent.obs.failed
  /\ sent.status = 500
  /\ sent.req.route = Post
  /\ sent.req.code = NoCode
  /\ sent.finalCode = NoCode
  /\ rows # {}

\* ------------------------------------------------------------- C14
\* C14: every link in the table has a code matching the pattern; a 201 of
\* POST /api/links carries the code inserted, which matches the pattern, is
\* the requested code if one was requested and has length 6 if not, and no
\* link of that code was in the table the INSERT was applied to; a requested
\* code that was live when the request arrived was deleted meanwhile.
C14_AllocatedCodeWellFormedAndFree ==
  /\ [](/\ \A r \in rows : CODE_REGEX(r.code)
        /\ (SentExplicitPost /\ sent.status = 201 /\ sent.obs.wasLive) =>
             sent.obs.delDuring)
  /\ [][\A p \in Clients :
          (Answers(p, "post_insert") /\ sent'.status = 201) =>
            /\ CODE_REGEX(sent'.body.code)
            /\ sent'.body.code = finalCode[p]
            /\ req[p].code # NoCode => sent'.body.code = req[p].code
            /\ req[p].code = NoCode => Len(sent'.body.code) = 6
            /\ ~Live(sent'.body.code)
            /\ \E r \in rows' : r.code = sent'.body.code]_vars

\* C14 witness: a POST without a requested code is answered 201 with a code
\* of length 6 while a link with a requested code of length 7 is live.
C14_Witness ==
  /\ sent.req.route = Post
  /\ sent.req.code = NoCode
  /\ sent.status = 201
  /\ Len(sent.body.code) = 6
  /\ \E r \in rows : r.code = CodeHealthz

\* ------------------------------------------------------------- C15
\* C15: ids identify rows, and in every step a row that stays in the table
\* keeps its id, code, original_url and created_at; a row changes only in
\* the visit update of a GET /:code that read that row, and that step
\* leaves every other row as it is.
C15_LinkImmutableButVisits ==
  /\ [](\A r1 \in rows, r2 \in rows : r1.id = r2.id => r1 = r2)
  /\ [][\A r \in rows, r2 \in rows' :
          r.id = r2.id =>
            /\ r2.code = r.code
            /\ r2.original_url = r.original_url
            /\ r2.created_at = r.created_at
            /\ r2 # r =>
                 /\ \E p \in Clients :
                      Answers(p, "get_update") /\ link[p].id = r.id
                 /\ \A y \in rows : y.id # r.id => y \in rows'
                 /\ \A y \in rows' : \E x \in rows : x.id = y.id]_vars

\* C15 witness: a visited link, redirected to just now, still has the code
\* and original_url it was created with, and its created_at is older than
\* its last_clicked_at.
C15_Witness ==
  /\ sent.status = 302
  /\ \E r \in rows :
       /\ r.id = sent.link.id
       /\ r.code = sent.req.code
       /\ r.original_url = sent.body
       /\ r.last_clicked_at # NULL
       /\ r.created_at < r.last_clicked_at[1]

\* ------------------------------------------------------------- C16
\* C16: in every state a row has no last_clicked_at exactly when its clicks
\* is 0; a row enters the table with clicks 0 and no last_clicked_at, and a
\* step that changes a row increments clicks and sets last_clicked_at to the
\* time that step's UPDATE wrote, whatever was there before.
C16_LastClickedIffVisited ==
  /\ [](\A r \in rows : r.last_clicked_at = NULL <=> r.clicks = 0)
  /\ [][/\ \A r2 \in rows' :
            (\A r \in rows : r.id # r2.id) =>
              r2.clicks = 0 /\ r2.last_clicked_at = NULL
        /\ \A r \in rows, r2 \in rows' :
            (r.id = r2.id /\ r2 # r) =>
              /\ r2.clicks = r.clicks + 1
              /\ r2.last_clicked_at = <<now>>]_vars

\* C16 witness: two GETs of one link overlapped; the link counts two visits
\* and its last_clicked_at is the time of the update applied last, later
\* than the time the first update wrote.
C16_Witness ==
  /\ sent.status = 302
  /\ sent.obs.visitDuring
  /\ \E r \in rows :
       /\ r.id = sent.link.id
       /\ r.clicks = 2
       /\ r.last_clicked_at = <<now - 1>>
       /\ r.created_at < now - 2

\* ------------------------------------------------------------- C17
HealthzRoute == "GET /healthz"

\* C17 (as claimed): a GET of the path /c, c the code of a live link that
\* was not deleted while the request ran, with no failing query, is answered
\* 302 with that link's original_url, and the link has the visit.
C17_LiveLinkResolvable ==
  (/\ sent.req.route \in {Get, HealthzRoute}
   /\ ~sent.obs.failed
   /\ Live(sent.req.code)
   /\ \A d \in deleted : d.id # sent.link.id) =>
    /\ sent.status = 302
    /\ \E r \in rows :
         /\ r.code = sent.req.code
         /\ sent.body = r.original_url
         /\ r.clicks >= 1

\* ------------------------------------------------------------- C18
\* The table's id sequence or clock is at the bound of this model.
BoundReached == nextId > MaxId \/ now > MaxNow

\* C18: an iteration of the while (exists) loop is one SELECT that leaves
\* the table as it is, and the loop is left for the INSERT exactly when no
\* link has the candidate; while a code generateCode can return is free, a
\* POST in the loop eventually returns, unless that code is taken first.
C18_GeneratedAllocateReturns ==
  /\ [][\A p \in Clients :
          (pc[p] = "post_select" /\ ~sent'.obs.failed /\ <<pc'[p], finalCode'[p]>> # <<pc[p], finalCode[p]>>) =>
            /\ rows' = rows
            /\ pc'[p] \in {"post_select", "post_insert"}
            /\ pc'[p] = "post_insert" <=> ~Live(finalCode'[p])]_vars
  /\ \A p \in Clients : \A draws \in RandomDraws :
       (pc[p] = "post_select" /\ ~Live(generateCode(6, draws))) ~>
         (pc[p] = "idle" \/ Live(generateCode(6, draws)) \/ BoundReached)

\* C18 witness: a POST is in the loop after a candidate that a link has,
\* while the other code generateCode can return is free.
C18_Witness ==
  \E p \in Clients :
    /\ pc[p] = "post_select"
    /\ finalCode[p] = CodeA
    /\ Live(CodeA)
    /\ ~Live(CodeB)
    /\ ~BoundReached

\* ------------------------------------------------------------- C19
\* C19: a step that answers 409 answers a POST /api/links, leaves every row
\* of the table as it is and adds none, and the table holds the link of the
\* code the POST tried to insert.
C19_ConflictChangesNothing ==
  [][sent'.status = 409 =>
       /\ sent'.req.route = Post
       /\ rows' = rows
       /\ \E r \in rows' : r.code = sent'.finalCode]_vars

\* C19 witness: a POST of a live, visited code with another url is answered
\* 409; the link has the url it was created with and its visit.
C19_Witness ==
  /\ sent.status = 409
  /\ \E r \in rows :
       /\ r.code = sent.req.code
       /\ r.original_url # sent.req.url
       /\ r.clicks >= 1
       /\ r.last_clicked_at # NULL
  /\ Cardinality(rows) = 1

\* ------------------------------------------------------------- C20
\* C20: when the UPDATE of a GET /:code returns and the link the GET read
\* is no longer in the table, the request is answered 302 with the
\* original_url it read, and the table is unchanged: the link is not
\* created again and no row's clicks changes.
C20_DeleteBetweenReadAndUpdate ==
  [][\A p \in Clients :
       (Answers(p, "get_update") /\ \A r \in rows : r.id # link[p].id) =>
         /\ sent'.status = 302
         /\ sent'.body = link[p].original_url
         /\ rows' = rows]_vars

\* C20 witness: a GET is answered 302 for a link that a DELETE removed
\* after the GET read it; the code has no link, and another link, never
\* visited, is live.
C20_Witness ==
  /\ sent.status = 302
  /\ sent.req.route = Get
  /\ \E d \in deleted : d.id = sent.link.id /\ d.code = sent.req.code
  /\ ~Live(sent.req.code)
  /\ \E r \in rows : r.clicks = 0

====
